---- MODULE Spec2Model ----
(***************************************************************************)
(* A model of the arXiv fetch / download / parse pipeline:                 *)
(*   - ArxivClient.download_pdf and ArxivClient._download_with_retry       *)
(*     (src/src/services/arxiv/arxiv_client.py),                           *)
(*   - MetadataFetcher.fetch_and_process_papers, _process_pdfs_batch and   *)
(*     _download_and_parse_pipeline (src/src/services/metadata_fetcher.py).*)
(*                                                                         *)
(* The program runs on one asyncio event loop, so a coroutine runs without *)
(* interruption from one await that suspends to the next.  Every action    *)
(* below is one such run.                                                  *)
(*                                                                         *)
(* The specifications share the state:                                     *)
(*   Spec     one call of fetch_and_process_papers (a batch run),          *)
(*   FairSpec the same with a fair event loop,                             *)
(*   SpecDL   one client on which download_pdf is called again and again,  *)
(*            one call after the other,                                    *)
(*   SpecRL   fetch_papers calls on one client, which may overlap, and the *)
(*            clock of _rate_limit (arxiv_client.py),                      *)
(*   SpecVal  one call of DoclingParser._validate_pdf                      *)
(*            (src/src/services/pdf_parser/parser.py),                     *)
(*   SpecResp fetch_papers calls from the GET on: the exceptions of the    *)
(*            request and the parsing of the feed (arxiv_client.py),       *)
(*   SpecCfg  Settings() built from the environment (src/src/config.py),   *)
(*   SpecBT   the requests of one batch on the clock: the metadata fetch   *)
(*            and the downloads that follow it,                            *)
(*   SpecLim  the max_results argument on its way into the query,          *)
(*   SpecDB   PostgreSQLDatabase.startup and get_session                   *)
(*            (src/src/db/interfaces/postgresql.py).                       *)
(***************************************************************************)
EXTENDS Integers, Sequences, FiniteSets, TLC

(***************************************************************************)
(* Bounds of the model.                                                    *)
(***************************************************************************)
\* the longest list of papers the metadata fetch returns
MaxPapers == 2
\* the largest download_max_retries setting tried in a batch run
MaxBatchRetries == 1
\* the largest download_max_retries setting tried on the lone client
MaxRetries == 3
\* the largest max_concurrent_downloads setting tried
MaxDownloadSlots == 2
\* the largest max_concurrent_parsing setting tried
MaxParseSlots == 2
\* the number of download_pdf calls made on the lone client
MaxCalls == 3
\* fetch_papers calls made on one client
MaxFetchCalls == 3
\* the clock stops here
MaxTime == 7
\* largest page limit and largest size limit (in MB) a parser is made with
MaxPageLimit == 2
MaxSizeMb == 2
\* the most <entry> elements in one response of the arXiv API
MaxEntries == 3
\* the largest max_results argument and the largest ArxivSettings.max_results
MaxResultsArg == 6
\* the "with db.get_session()" blocks entered on one database object
MaxSessions == 3

(***************************************************************************)
(* Program constants.                                                      *)
(***************************************************************************)
\* ArxivSettings.download_retry_delay_base (5.0 seconds)
download_retry_delay_base == 5
rate_limit_delay == 3
\* "max_results=5" of the fetch_papers call in fetch_and_process_papers
PassedMaxResults == 5
\* min(max_results, 2000): the most the arXiv API gives in one answer
ArxivLimit == 2000
\* max_file_size_mb * 1024 * 1024
BytesPerMb == 1024 * 1024

(***************************************************************************)
(* Values.                                                                 *)
(***************************************************************************)
\* A string that is taken apart (an arXiv identifier, a path) is a sequence
\* of characters.  ArxivPaper: the two fields the pipeline reads.
Records ==
    { [arxiv_id |-> <<"a", "/", "b">>, pdf_url |-> "u1"],
      [arxiv_id |-> <<"a", "_", "b">>, pdf_url |-> "u2"],
      [arxiv_id |-> <<"c">>,           pdf_url |-> "u3"],
      [arxiv_id |-> <<"d">>,           pdf_url |-> ""] }

NoPaper == [arxiv_id |-> <<>>, pdf_url |-> ""]

\* _parse_single_entry keeps what follows the last "/" of the entry's id, so
\* an identifier that comes out of fetch_papers holds no "/".
FetchedRecords == { r \in Records : \A k \in 1..Len(r.arxiv_id) : r.arxiv_id[k] # "/" }

\* arxiv_id.replace("/", "_") + ".pdf" (the cache directory is the same for all)
GetPdfPath(arxiv_id) ==
    [k \in 1..Len(arxiv_id) |-> IF arxiv_id[k] = "/" THEN "_" ELSE arxiv_id[k]]
        \o <<".pdf">>

Paths == { GetPdfPath(r.arxiv_id) : r \in Records }

Tasks == 1..MaxPapers

\* what a call has returned: nothing yet, a path, None, or a raised exception
NoRet == [kind |-> "none", path |-> <<>>, exc |-> "", msg |-> "", cause |-> ""]
RetPath(p) == [kind |-> "path", path |-> p, exc |-> "", msg |-> "", cause |-> ""]
RetNone == [kind |-> "None", path |-> <<>>, exc |-> "", msg |-> "", cause |-> ""]
Raise(e, m) == [kind |-> "raise", path |-> <<>>, exc |-> e, msg |-> m, cause |-> ""]
\* raise e(m) from cause
RaiseFrom(e, m, cause) == [Raise(e, m) EXCEPT !.cause = cause]

VARIABLES
    \* ---- settings (ArxivSettings), fixed for a run
    max_retries,                \* download_max_retries
    max_concurrent_downloads,
    max_concurrent_parsing,
    \* ---- the PDF cache directory: path -> "absent" | "partial" | "complete"
    cache,
    \* ---- one download_pdf call per task
    dpc,        \* "idle" | "rate_sleep" | "request" | "stream" | "backoff" | "returned"
    darg,       \* [paper, force] of the call
    attempt,    \* the loop variable of _download_with_retry
    ret,        \* what download_pdf returned
    net,        \* network requests issued by the call
    fails,      \* attempts of the call that failed
    waits,      \* the backoff sleeps of the call, in order
    \* ---- the lone client's caller
    ncalls,     \* download_pdf calls made so far
    prev,       \* the call before the current one
    \* ---- fetch_and_process_papers
    fpc,        \* "idle" | "start" | "batch" | "returned" | "raised"
    papers,
    results,
    fetch_failed,
    \* ---- _process_pdfs_batch
    download_semaphore,     \* free permits, -1 before the semaphore exists
    parse_semaphore,
    report,
    \* ---- _download_and_parse_pipeline, one per paper
    pc,         \* "none" | "pending" | "downloading" | "wait_parse" | "parsing" | "done"
    parse_res,  \* what parse_pdf did: "none" | "content" | "nothing" | an exception
    outcome,    \* the task's entry of pipeline_results
    \* ---- ArxivClient._rate_limit and the fetch_papers calls on one client
    now,                \* time.time()
    last_request_time,  \* self._last_request_time, NoTime for None
    rlpc,       \* per call: "idle" | "sleeping" | "request" | "done"
    wake,       \* per call: when its asyncio.sleep ends
    issued,     \* per call: when its GET was sent, NoTime before
    \* ---- DoclingParser._validate_pdf
    max_pages,
    max_file_size_bytes,
    pdf_file,   \* the file at pdf_path
    val_pc,     \* "idle" | "done"
    validated,  \* how the call ended
    \* ---- ArxivClient.fetch_papers from its GET on
    fetch_pc,   \* "idle" | "get" | "done"
    response,   \* what the GET brought
    fetched,    \* what fetch_papers returned or raised
    \* ---- Settings()
    environ,    \* the environment variables the process was started with
    settings,   \* the object get_settings() built, NoSettings before
    \* ---- the max_results argument on its way to the arXiv query
    cfg_max_results,    \* ArxivSettings.max_results of the client
    call_arg,   \* max_results given to fetch_and_process_papers, NoArg for None
    query_limit,        \* params["max_results"] of the GET
    lim_pc,     \* "idle" | "fetching" | "returned"
    papers_fetched,     \* results["papers_fetched"]
    \* ---- PostgreSQLDatabase and its sessions
    started,    \* startup(): "no" | "engine_error" | "connect_error" | "ok"
    session_factory,    \* whether self.session_factory is set
    db_pc,      \* per use of get_session: "idle" | "in_block" | "exited"
    session,    \* per use: its session, NoSession if none was created
    db_raised,  \* per use: what the "with" statement let out, "none" if nothing
    sessions_made       \* calls of self.session_factory() so far

settingsVars == <<max_retries, max_concurrent_downloads, max_concurrent_parsing>>
dlVars == <<dpc, darg, attempt, ret, net, fails, waits>>
callerVars == <<ncalls, prev>>
batchVars == <<fpc, papers, results, fetch_failed, download_semaphore,
               parse_semaphore, report>>
pipeVars == <<pc, parse_res, outcome>>
rlVars == <<now, last_request_time, rlpc, wake, issued>>
valVars == <<max_pages, max_file_size_bytes, pdf_file, val_pc, validated>>
coreVars == <<settingsVars, cache, dlVars, callerVars, batchVars, pipeVars>>
respVars == <<fetch_pc, response, fetched>>
cfgVars == <<environ, settings>>
limVars == <<cfg_max_results, call_arg, query_limit, lim_pc, papers_fetched>>
dbVars == <<started, session_factory, db_pc, session, db_raised, sessions_made>>
vars == <<coreVars, rlVars, valVars, respVars, cfgVars, limVars, dbVars>>

(***************************************************************************)
(* ArxivClient.download_pdf / _download_with_retry                         *)
(***************************************************************************)
PathOf(t) == GetPdfPath(darg[t].paper.arxiv_id)

\* wait_time = download_retry_delay_base * (attempt + 1)
WaitTimeOffByOne(a) == download_retry_delay_base * a
WaitTime(a) == download_retry_delay_base * (a + 1)

\* "Return cached PDF if exists": pdf_path.exists() and not force_download
CacheHitIgnoresForce(path, force) == cache[path] # "absent"
CacheHitInverted(path, force) == cache[path] # "absent" /\ force
CacheHit(path, force) == cache[path] # "absent" /\ ~force

\* download_pdf returns: the frame of task t ends with value r
DlReturn(t, r) ==
    /\ dpc' = [dpc EXCEPT ![t] = "returned"]
    /\ ret' = [ret EXCEPT ![t] = r]

\* download_pdf(paper, force_download) up to its first suspension
DlCall(t, paper, force) ==
    /\ darg' = [darg EXCEPT ![t] = [paper |-> paper, force |-> force]]
    /\ attempt' = [attempt EXCEPT ![t] = 0]
    /\ net' = [net EXCEPT ![t] = 0]
    /\ fails' = [fails EXCEPT ![t] = 0]
    /\ waits' = [waits EXCEPT ![t] = <<>>]
    /\ cache' = cache
    /\ IF paper.pdf_url = ""
         THEN DlReturn(t, RetNone)
         ELSE IF CacheHit(GetPdfPath(paper.arxiv_id), force)
           THEN DlReturn(t, RetPath(GetPdfPath(paper.arxiv_id)))
           ELSE \* _download_with_retry: await asyncio.sleep(rate_limit_delay)
                /\ dpc' = [dpc EXCEPT ![t] = "rate_sleep"]
                /\ ret' = [ret EXCEPT ![t] = NoRet]

\* the rate-limit sleep is over: the loop starts, or, with no attempt to
\* make, falls through to the clean-up and to return False
DlWake(t) ==
    /\ dpc[t] = "rate_sleep"
    /\ UNCHANGED <<darg, attempt, fails, waits>>
    /\ IF max_retries > 0
         THEN /\ dpc' = [dpc EXCEPT ![t] = "request"]
              /\ net' = [net EXCEPT ![t] = @ + 1]
              /\ UNCHANGED <<ret, cache>>
         ELSE /\ cache' = [cache EXCEPT ![PathOf(t)] = "absent"]
              /\ DlReturn(t, RetNone)
              /\ UNCHANGED net

\* "if attempt < max_retries - 1": another attempt follows this one
MoreAttemptsOffByOne(a) == a < max_retries
MoreAttempts(a) == a < max_retries - 1

\* the except clauses of the retry loop; kind is "timeout" (httpx.TimeoutException),
\* "http" (another httpx.HTTPError) or "other" (any other Exception)
DlAttemptFailedRetriesOther(t, kind) ==
    /\ fails' = [fails EXCEPT ![t] = @ + 1]
    /\ UNCHANGED <<darg, attempt, net>>
    /\ IF MoreAttempts(attempt[t])
         THEN /\ waits' = [waits EXCEPT ![t] = Append(@, WaitTime(attempt[t]))]
              /\ dpc' = [dpc EXCEPT ![t] = "backoff"]
              /\ UNCHANGED ret
         ELSE /\ DlReturn(t, IF kind = "timeout"
                               THEN RaiseFrom("PDFDownloadTimeoutError", "exhausted", kind)
                               ELSE RaiseFrom("PDFDownloadException", "exhausted", kind))
              /\ UNCHANGED waits
DlAttemptFailed(t, kind) ==
    /\ fails' = [fails EXCEPT ![t] = @ + 1]
    /\ UNCHANGED <<darg, attempt, net>>
    /\ IF kind = "other"
         THEN /\ DlReturn(t, RaiseFrom("PDFDownloadException", "unexpected", kind))
              /\ UNCHANGED waits
         ELSE IF MoreAttempts(attempt[t])
           THEN /\ waits' = [waits EXCEPT ![t] = Append(@, WaitTime(attempt[t]))]
                /\ dpc' = [dpc EXCEPT ![t] = "backoff"]
                /\ UNCHANGED ret
           ELSE /\ DlReturn(t, IF kind = "timeout"
                                 THEN RaiseFrom("PDFDownloadTimeoutError", "exhausted", kind)
                                 ELSE RaiseFrom("PDFDownloadException", "exhausted", kind))
                /\ UNCHANGED waits

\* the answer to the GET: a good status opens the target file for writing
\* ("wb" creates or truncates it); a timeout, an HTTP error or another error
\* ends the attempt before the file is touched
DlResponse(t) ==
    /\ dpc[t] = "request"
    /\ \E r \in {"ok", "timeout", "http", "other"} :
         IF r = "ok"
           THEN /\ cache' = [cache EXCEPT ![PathOf(t)] = "partial"]
                /\ dpc' = [dpc EXCEPT ![t] = "stream"]
                /\ UNCHANGED <<darg, attempt, ret, net, fails, waits>>
           ELSE /\ cache' = cache
                /\ DlAttemptFailed(t, r)

\* the body is streamed into the file: to its end (return True), or until a
\* timeout or an error stops it and leaves what was written
DlStreamEnd(t) ==
    /\ dpc[t] = "stream"
    /\ \E r \in {"ok", "timeout", "http", "other"} :
         IF r = "ok"
           THEN /\ cache' = [cache EXCEPT ![PathOf(t)] = "complete"]
                /\ DlReturn(t, RetPath(PathOf(t)))
                /\ UNCHANGED <<darg, attempt, net, fails, waits>>
           ELSE /\ cache' = cache
                /\ DlAttemptFailed(t, r)

\* the backoff sleep is over: the next attempt's request
DlAfterBackoffRateLimited(t) ==
    /\ dpc[t] = "backoff"
    /\ attempt' = [attempt EXCEPT ![t] = @ + 1]
    /\ dpc' = [dpc EXCEPT ![t] = "rate_sleep"]
    /\ UNCHANGED <<darg, ret, net, fails, waits, cache>>
DlAfterBackoff(t) ==
    /\ dpc[t] = "backoff"
    /\ attempt' = [attempt EXCEPT ![t] = @ + 1]
    /\ net' = [net EXCEPT ![t] = @ + 1]
    /\ dpc' = [dpc EXCEPT ![t] = "request"]
    /\ UNCHANGED <<darg, ret, fails, waits, cache>>

\* one run of a suspended download_pdf call
DownloadStep(t) ==
    \/ DlWake(t)
    \/ DlResponse(t)
    \/ DlStreamEnd(t)
    \/ DlAfterBackoff(t)

(***************************************************************************)
(* The lone client: download_pdf called again and again                    *)
(***************************************************************************)
NoCall == [paper |-> NoPaper, force |-> FALSE, ret |-> NoRet, net |-> 0]

CallSummary(t) ==
    [paper |-> darg[t].paper, force |-> darg[t].force, ret |-> ret[t], net |-> net[t]]

IdleFrames ==
    /\ dpc = [t \in Tasks |-> "idle"]
    /\ darg = [t \in Tasks |-> [paper |-> NoPaper, force |-> FALSE]]
    /\ attempt = [t \in Tasks |-> 0]
    /\ ret = [t \in Tasks |-> NoRet]
    /\ net = [t \in Tasks |-> 0]
    /\ fails = [t \in Tasks |-> 0]
    /\ waits = [t \in Tasks |-> <<>>]

IdleBatch ==
    /\ papers = <<>>
    /\ results = [papers_fetched |-> 0, pdfs_downloaded |-> 0, pdfs_parsed |-> 0,
                  errors |-> <<>>]
    /\ fetch_failed = FALSE
    /\ download_semaphore = -1
    /\ parse_semaphore = -1
    /\ report = [downloaded |-> 0, parsed |-> 0, parsed_papers |-> {},
                 errors |-> <<>>, download_failures |-> <<>>, parse_failures |-> <<>>]
    /\ pc = [t \in Tasks |-> "none"]
    /\ parse_res = [t \in Tasks |-> "none"]
    /\ outcome = [t \in Tasks |->
                    [kind |-> "none", download_success |-> FALSE, parsed |-> FALSE,
                     exc |-> "", msg |-> <<>>]]

\* no fetch_papers call yet on the client: self._last_request_time = None
NoTime == -1
Calls == 1..MaxFetchCalls

IdleLimiter ==
    /\ now = 0
    /\ last_request_time = NoTime
    /\ rlpc = [k \in Calls |-> "idle"]
    /\ wake = [k \in Calls |-> NoTime]
    /\ issued = [k \in Calls |-> NoTime]

\* no _validate_pdf call yet
NoFile == [exists |-> FALSE, size |-> 0, header_ok |-> FALSE, opens |-> FALSE,
           pages |-> 0]
NoValidation == [result |-> "none", check |-> "none", exc |-> "", ran |-> <<>>]

IdleValidator ==
    /\ max_pages = 1
    /\ max_file_size_bytes = BytesPerMb
    /\ pdf_file = NoFile
    /\ val_pc = "idle"
    /\ validated = NoValidation

\* no fetch_papers response handled yet
NoResponse == [kind |-> "none", entries |-> <<>>]
NoFetch == [kind |-> "none"]

IdleFetch ==
    /\ fetch_pc = "idle"
    /\ response = NoResponse
    /\ fetched = NoFetch

\* no Settings object built yet, nothing set in the environment
Unset == "<unset>"
EnvNames == {"APP_VERSION", "DEBUG", "ENVIRONMENT", "SERVICE_NAME",
             "ARXIV__BASE_URL", "ARXIV__MAX_RESULTS",
             "PDF_PARSER__MAX_FILE_SIZE_MB"}
NoSettings == [kind |-> "none"]

IdleConfig ==
    /\ environ = [n \in EnvNames |-> Unset]
    /\ settings = NoSettings

\* fetch_and_process_papers not called yet on a client with the default
\* ArxivSettings.max_results
NoArg == -1
IdleArgument ==
    /\ cfg_max_results = 1
    /\ call_arg = NoArg
    /\ query_limit = NoArg
    /\ lim_pc = "idle"
    /\ papers_fetched = 0

\* a PostgreSQLDatabase after __init__: no engine, no session factory
\* a session: the state of its transaction, the calls made on it in order,
\* and how the caller's block ended
NoSession == [tx |-> "none", calls |-> <<>>, block |-> "none"]
Uses == 1..MaxSessions
IdleDatabase ==
    /\ started = "no"
    /\ session_factory = FALSE
    /\ db_pc = [u \in Uses |-> "idle"]
    /\ session = [u \in Uses |-> NoSession]
    /\ db_raised = [u \in Uses |-> "none"]
    /\ sessions_made = 0

InitDL ==
    /\ max_retries \in 0..MaxRetries
    /\ max_concurrent_downloads = 1
    /\ max_concurrent_parsing = 1
    /\ cache = [p \in Paths |-> "absent"]
    /\ IdleFrames
    /\ ncalls = 0
    /\ prev = NoCall
    /\ fpc = "idle"
    /\ IdleBatch
    /\ IdleLimiter
    /\ IdleValidator
    /\ IdleFetch
    /\ IdleArgument
    /\ IdleDatabase
    /\ IdleConfig

\* the caller calls download_pdf(paper, force) once the call before has returned
ClientCall ==
    /\ dpc[1] \in {"idle", "returned"}
    /\ ncalls < MaxCalls
    /\ ncalls' = ncalls + 1
    /\ prev' = IF dpc[1] = "returned" THEN CallSummary(1) ELSE prev
    /\ \E paper \in Records, force \in BOOLEAN : DlCall(1, paper, force)
    /\ UNCHANGED <<rlVars, valVars, respVars, cfgVars, limVars, dbVars, settingsVars, batchVars, pipeVars>>

\* the call in progress runs to its next suspension, or returns
ClientStep ==
    /\ DownloadStep(1)
    /\ UNCHANGED <<rlVars, valVars, respVars, cfgVars, limVars, dbVars, settingsVars, callerVars, batchVars, pipeVars>>

NextDL == ClientCall \/ ClientStep

SpecDL == InitDL /\ [][NextDL]_vars

(***************************************************************************)
(* MetadataFetcher._download_and_parse_pipeline                            *)
(***************************************************************************)
\* entries of pipeline_results: not there yet, a returned tuple
\* (download_success, parsed_paper), or the exception the task raised
NoOutcome == [kind |-> "none", download_success |-> FALSE, parsed |-> FALSE,
              exc |-> "", msg |-> <<>>]
TupleSuccessUnset(ds, pp) == [kind |-> "tuple", download_success |-> FALSE,
                              parsed |-> pp, exc |-> "", msg |-> <<>>]
Tuple(ds, pp) == [kind |-> "tuple", download_success |-> ds, parsed |-> pp,
                  exc |-> "", msg |-> <<>>]

\* f"Pipeline error for {paper.arxiv_id}: {e}"
PipelineErrorMsg(id, e) == <<"Pipeline error for ", id, ": ", e>>

\* except Exception as e: raise MetadataFetchingException(f"Pipeline error ...")
PipelineRaises(id, cause) ==
    [kind |-> "exc", download_success |-> FALSE, parsed |-> FALSE,
     exc |-> "MetadataFetchingException", msg |-> PipelineErrorMsg(id, cause)]

\* what a parse_pdf call can do: return content, return nothing, or raise
ParseOutcomes ==
    {"content", "nothing", "PDFValidationError", "PDFParsingException", "Exception"}

\* asyncio.Semaphore: acquire() goes through while the counter is above zero
SlotFreeOffByOne(sem) == sem > 1
SlotFree(sem) == sem > 0

\* "async with parse_semaphore" of task i: a free parse slot is all it waits for
ParseMayStartAfterAllDownloads(i) ==
    /\ SlotFree(parse_semaphore)
    /\ \A j \in Tasks \ {i} : pc[j] \notin {"pending", "downloading"}
ParseMayStart(i) == SlotFree(parse_semaphore)

\* the download has returned inside "async with download_semaphore"; held is
\* the semaphore's counter while this task holds its slot
AfterDownloadNoEarlyReturn(i, held) ==
    /\ download_semaphore' = held + 1
    /\ UNCHANGED parse_res
    /\ IF ret'[i].kind = "raise"
         THEN /\ outcome' = [outcome EXCEPT ![i] =
                     PipelineRaises(papers[i].arxiv_id, <<ret'[i].exc, ret'[i].msg>>)]
              /\ pc' = [pc EXCEPT ![i] = "done"]
              /\ UNCHANGED parse_semaphore
         ELSE /\ UNCHANGED outcome
              /\ IF ParseMayStart(i)
                   THEN /\ parse_semaphore' = parse_semaphore - 1
                        /\ pc' = [pc EXCEPT ![i] = "parsing"]
                   ELSE /\ pc' = [pc EXCEPT ![i] = "wait_parse"]
                        /\ UNCHANGED parse_semaphore
\* "async with parse_semaphore" nested in "async with download_semaphore"
AfterDownloadSlotKept(i, held) ==
    /\ UNCHANGED parse_res
    /\ IF ret'[i].kind = "raise"
         THEN /\ outcome' = [outcome EXCEPT ![i] =
                     PipelineRaises(papers[i].arxiv_id, <<ret'[i].exc, ret'[i].msg>>)]
              /\ pc' = [pc EXCEPT ![i] = "done"]
              /\ download_semaphore' = held + 1
              /\ UNCHANGED parse_semaphore
         ELSE IF ret'[i].kind = "None"
           THEN /\ outcome' = [outcome EXCEPT ![i] = Tuple(FALSE, FALSE)]
                /\ pc' = [pc EXCEPT ![i] = "done"]
                /\ download_semaphore' = held + 1
                /\ UNCHANGED parse_semaphore
           ELSE /\ UNCHANGED outcome
                /\ download_semaphore' = held
                /\ IF ParseMayStart(i)
                     THEN /\ parse_semaphore' = parse_semaphore - 1
                          /\ pc' = [pc EXCEPT ![i] = "parsing"]
                     ELSE /\ pc' = [pc EXCEPT ![i] = "wait_parse"]
                          /\ UNCHANGED parse_semaphore
AfterDownload(i, held) ==
    /\ download_semaphore' = held + 1
    /\ UNCHANGED parse_res
    /\ IF ret'[i].kind = "raise"
         THEN /\ outcome' = [outcome EXCEPT ![i] =
                     PipelineRaises(papers[i].arxiv_id, <<ret'[i].exc, ret'[i].msg>>)]
              /\ pc' = [pc EXCEPT ![i] = "done"]
              /\ UNCHANGED parse_semaphore
         ELSE IF ret'[i].kind = "None"
           THEN /\ outcome' = [outcome EXCEPT ![i] = Tuple(FALSE, FALSE)]
                /\ pc' = [pc EXCEPT ![i] = "done"]
                /\ UNCHANGED parse_semaphore
           ELSE \* download_success = True; async with parse_semaphore
                /\ UNCHANGED outcome
                /\ IF ParseMayStart(i)
                     THEN /\ parse_semaphore' = parse_semaphore - 1
                          /\ pc' = [pc EXCEPT ![i] = "parsing"]
                     ELSE /\ pc' = [pc EXCEPT ![i] = "wait_parse"]
                          /\ UNCHANGED parse_semaphore

\* the task gets a download slot and calls download_pdf(paper, False); gather
\* starts the tasks in the order of the batch and the semaphore wakes its
\* waiters first come, first served, so the tasks get their slots in that order
StartDownload(i) ==
    /\ fpc = "batch"
    /\ pc[i] = "pending"
    /\ \A j \in 1..(i - 1) : pc[j] # "pending"
    /\ SlotFree(download_semaphore)
    /\ DlCall(i, papers[i], FALSE)
    /\ IF dpc'[i] = "returned"
         THEN AfterDownload(i, download_semaphore - 1)
         ELSE /\ download_semaphore' = download_semaphore - 1
              /\ pc' = [pc EXCEPT ![i] = "downloading"]
              /\ UNCHANGED <<parse_semaphore, parse_res, outcome>>
    /\ UNCHANGED <<rlVars, valVars, respVars, cfgVars, limVars, dbVars, settingsVars, callerVars, fpc, papers, results, fetch_failed, report>>

\* the task's download runs on to its next suspension, or returns
DownloadProgress(i) ==
    /\ pc[i] = "downloading"
    /\ DownloadStep(i)
    /\ IF dpc'[i] = "returned"
         THEN AfterDownload(i, download_semaphore)
         ELSE UNCHANGED <<download_semaphore, parse_semaphore, pipeVars>>
    /\ UNCHANGED <<rlVars, valVars, respVars, cfgVars, limVars, dbVars, settingsVars, callerVars, fpc, papers, results, fetch_failed, report>>

\* a task blocked at "async with parse_semaphore" gets its slot and calls parse_pdf
AcquireParse(i) ==
    /\ pc[i] = "wait_parse"
    /\ ParseMayStart(i)
    /\ parse_semaphore' = parse_semaphore - 1
    /\ pc' = [pc EXCEPT ![i] = "parsing"]
    /\ UNCHANGED <<rlVars, valVars, respVars, cfgVars, limVars, dbVars, settingsVars, cache, dlVars, callerVars, fpc, papers, results,
                   fetch_failed, download_semaphore, report, parse_res, outcome>>

\* parse_pdf returns or raises; the slot is released and the pipeline ends
ParseReturnsSlotLostOnRaise(i) ==
    /\ pc[i] = "parsing"
    /\ \E r \in ParseOutcomes :
         /\ parse_res' = [parse_res EXCEPT ![i] = r]
         /\ outcome' = [outcome EXCEPT ![i] =
                IF r = "content" THEN Tuple(TRUE, TRUE)
                ELSE IF r = "nothing" THEN Tuple(TRUE, FALSE)
                ELSE PipelineRaises(papers[i].arxiv_id, <<r, "parse">>)]
         /\ parse_semaphore' = IF r \in {"content", "nothing"}
                                 THEN parse_semaphore + 1 ELSE parse_semaphore
    /\ pc' = [pc EXCEPT ![i] = "done"]
    /\ UNCHANGED <<rlVars, valVars, respVars, cfgVars, limVars, dbVars, settingsVars, cache, dlVars, callerVars, fpc, papers, results,
                   fetch_failed, download_semaphore, report>>
ParseReturns(i) ==
    /\ pc[i] = "parsing"
    /\ \E r \in ParseOutcomes :
         /\ parse_res' = [parse_res EXCEPT ![i] = r]
         /\ outcome' = [outcome EXCEPT ![i] =
                IF r = "content" THEN Tuple(TRUE, TRUE)
                ELSE IF r = "nothing" THEN Tuple(TRUE, FALSE)
                ELSE PipelineRaises(papers[i].arxiv_id, <<r, "parse">>)]
    /\ parse_semaphore' = parse_semaphore + 1
    /\ pc' = [pc EXCEPT ![i] = "done"]
    /\ UNCHANGED <<rlVars, valVars, respVars, cfgVars, limVars, dbVars, settingsVars, cache, dlVars, callerVars, fpc, papers, results,
                   fetch_failed, download_semaphore, report>>

(***************************************************************************)
(* MetadataFetcher._process_pdfs_batch                                     *)
(***************************************************************************)
EmptyReport ==
    [downloaded |-> 0, parsed |-> 0, parsed_papers |-> {}, errors |-> <<>>,
     download_failures |-> <<>>, parse_failures |-> <<>>]

\* isinstance(result, Exception)
IsExceptionNever(result) == FALSE
IsException(result) == result.kind = "exc"

\* one turn of "for paper, result in zip(papers, pipeline_results)"
TallyFailureMisfiled(r, paper, result) ==
    IF IsException(result)
      THEN [r EXCEPT !.errors =
               Append(@, PipelineErrorMsg(paper.arxiv_id, result.msg))]
    ELSE IF result.kind = "tuple" /\ result.download_success /\ result.parsed
      THEN [r EXCEPT !.downloaded = @ + 1,
                     !.parsed = @ + 1,
                     !.parsed_papers = @ \cup {paper.arxiv_id}]
    ELSE IF result.kind = "tuple" /\ result.download_success
      THEN [r EXCEPT !.downloaded = @ + 1,
                     !.download_failures = Append(@, paper.arxiv_id)]
    ELSE [r EXCEPT !.download_failures = Append(@, paper.arxiv_id)]
Tally(r, paper, result) ==
    IF IsException(result)
      THEN [r EXCEPT !.errors =
               Append(@, PipelineErrorMsg(paper.arxiv_id, result.msg))]
    ELSE IF result.kind # "none"
      THEN IF result.kind = "tuple"
             THEN IF result.download_success
                    THEN IF result.parsed
                           THEN [r EXCEPT !.downloaded = @ + 1,
                                          !.parsed = @ + 1,
                                          !.parsed_papers = @ \cup {paper.arxiv_id}]
                           ELSE [r EXCEPT !.downloaded = @ + 1,
                                          !.parse_failures = Append(@, paper.arxiv_id)]
                    ELSE [r EXCEPT !.download_failures = Append(@, paper.arxiv_id)]
             ELSE [r EXCEPT !.errors =
                      Append(@, <<"Pipeline error for ", paper.arxiv_id,
                                  ": Unexpected result type ", result.exc>>)]
      ELSE [r EXCEPT !.download_failures = Append(@, paper.arxiv_id)]

\* the whole loop over zip(papers, pipeline_results), first pair first
RECURSIVE TallyAllButLast(_, _, _)
TallyAllButLast(r, ps, rs) ==
    IF Len(ps) <= 1 \/ rs = <<>> THEN r
    ELSE TallyAllButLast(Tally(r, Head(ps), Head(rs)), Tail(ps), Tail(rs))
RECURSIVE TallyAllReversed(_, _, _)
TallyAllReversed(r, ps, rs) ==
    IF ps = <<>> \/ rs = <<>> THEN r
    ELSE Tally(TallyAllReversed(r, Tail(ps), Tail(rs)), Head(ps), Head(rs))
RECURSIVE TallyAll(_, _, _)
TallyAll(r, ps, rs) ==
    IF ps = <<>> \/ rs = <<>> THEN r
    ELSE TallyAll(Tally(r, Head(ps), Head(rs)), Tail(ps), Tail(rs))

\* [f"Download failed: {arxiv_id}" for arxiv_id in ids], and the same for parsing
Labelled(text, ids) == [k \in 1..Len(ids) |-> <<text, ids[k]>>]

\* the report: the tally, then the failure lists added to errors
AggregateNoParseLabels(ps, rs) ==
    LET r == TallyAll(EmptyReport, ps, rs)
    IN  [r EXCEPT !.errors = @ \o Labelled("Download failed: ", r.download_failures)]
Aggregate(ps, rs) ==
    LET r == TallyAll(EmptyReport, ps, rs)
    IN  [r EXCEPT !.errors = @ \o Labelled("Download failed: ", r.download_failures)
                               \o Labelled("PDF parse failed: ", r.parse_failures)]

\* await asyncio.gather(*pipeline_tasks, return_exceptions=True): every task
\* has ended, by a return or by an exception
GatherFirstException ==
    \/ \A i \in 1..Len(papers) : pc[i] = "done"
    \/ \E i \in 1..Len(papers) : outcome[i].kind = "exc"
GatherDone == \A i \in 1..Len(papers) : pc[i] = "done"

PipelineResults == [i \in 1..Len(papers) |-> outcome[i]]

(***************************************************************************)
(* MetadataFetcher.fetch_and_process_papers                                *)
(***************************************************************************)
RECURSIVE SeqsUpTo(_, _)
SeqsUpTo(S, n) ==
    IF n = 0 THEN {<<>>}
    ELSE LET shorter == SeqsUpTo(S, n - 1)
         IN  shorter \cup { Append(s, x) : s \in { q \in shorter : Len(q) = n - 1 }, x \in S }

\* the lists of papers the metadata fetch can return
Batches == SeqsUpTo(FetchedRecords, MaxPapers)

\* asyncio.Semaphore(self.max_concurrent_downloads), (self.max_concurrent_parsing)
NewParseSemaphoreWrongCap == max_concurrent_downloads
NewDownloadSemaphoreWrongCap == max_concurrent_parsing
NewDownloadSemaphore == max_concurrent_downloads
NewParseSemaphore == max_concurrent_parsing

\* except Exception as e: ... raise PipelineException(...) from e
OnFetchErrorSwallowed(e) ==
    /\ fpc' = "returned"
    /\ results' = [results EXCEPT !.errors = Append(@, <<"Pipeline error: ", e>>)]
OnFetchError(e) ==
    /\ fpc' = "raised"
    /\ results' = [results EXCEPT !.errors = Append(@, <<"Pipeline error: ", e>>)]

\* Step 1: the metadata fetch raises
FetchRaises ==
    /\ fpc = "start"
    /\ \E e \in {"ArxivAPITimeoutError", "ArxivAPIException"} : OnFetchError(e)
    /\ fetch_failed' = TRUE
    /\ UNCHANGED <<rlVars, valVars, respVars, cfgVars, limVars, dbVars, settingsVars, cache, dlVars, callerVars, papers,
                   download_semaphore, parse_semaphore, report, pipeVars>>

\* Step 1: the metadata fetch returns papers; with none the call returns,
\* otherwise _process_pdfs_batch makes the semaphores and the tasks
FetchReturnsNoEarlyReturn ==
    /\ fpc = "start"
    /\ \E ps \in Batches :
         /\ papers' = ps
         /\ results' = [results EXCEPT !.papers_fetched = Len(ps)]
         /\ fpc' = "batch"
         /\ download_semaphore' = NewDownloadSemaphore
         /\ parse_semaphore' = NewParseSemaphore
         /\ pc' = [t \in Tasks |-> IF t <= Len(ps) THEN "pending" ELSE "none"]
    /\ UNCHANGED <<rlVars, valVars, respVars, cfgVars, limVars, dbVars, settingsVars, cache, dlVars, callerVars, fetch_failed, report,
                   parse_res, outcome>>
FetchReturns ==
    /\ fpc = "start"
    /\ \E ps \in Batches :
         /\ papers' = ps
         /\ results' = [results EXCEPT !.papers_fetched = Len(ps)]
         /\ IF ps = <<>>
              THEN /\ fpc' = "returned"
                   /\ UNCHANGED <<download_semaphore, parse_semaphore, pc>>
              ELSE /\ fpc' = "batch"
                   /\ download_semaphore' = NewDownloadSemaphore
                   /\ parse_semaphore' = NewParseSemaphore
                   /\ pc' = [t \in Tasks |-> IF t <= Len(ps) THEN "pending" ELSE "none"]
    /\ UNCHANGED <<rlVars, valVars, respVars, cfgVars, limVars, dbVars, settingsVars, cache, dlVars, callerVars, fetch_failed, report,
                   parse_res, outcome>>

\* gather is done: the report is built and fetch_and_process_papers returns
BatchReturns ==
    /\ fpc = "batch"
    /\ GatherDone
    /\ report' = Aggregate(papers, PipelineResults)
    /\ results' = [results EXCEPT !.pdfs_downloaded = report'.downloaded,
                                  !.pdfs_parsed = report'.parsed,
                                  !.errors = @ \o report'.errors]
    /\ fpc' = "returned"
    /\ UNCHANGED <<rlVars, valVars, respVars, cfgVars, limVars, dbVars, settingsVars, cache, dlVars, callerVars, papers, fetch_failed,
                   download_semaphore, parse_semaphore, pipeVars>>

Init ==
    /\ max_retries \in 0..MaxBatchRetries
    /\ max_concurrent_downloads \in 1..MaxDownloadSlots
    /\ max_concurrent_parsing \in 1..MaxParseSlots
    /\ cache = [p \in Paths |-> "absent"]
    /\ IdleFrames
    /\ ncalls = 0
    /\ prev = NoCall
    /\ fpc = "start"
    /\ IdleBatch
    /\ IdleLimiter
    /\ IdleValidator
    /\ IdleFetch
    /\ IdleArgument
    /\ IdleDatabase
    /\ IdleConfig

Next ==
    \/ FetchRaises
    \/ FetchReturns
    \/ \E i \in Tasks : StartDownload(i)
    \/ \E i \in Tasks : DownloadProgress(i)
    \/ \E i \in Tasks : AcquireParse(i)
    \/ \E i \in Tasks : ParseReturns(i)
    \/ BatchReturns

Spec == Init /\ [][Next]_vars

\* the event loop runs a task that can run, and every download_pdf and
\* parse_pdf call that was made eventually returns or raises
FairSpec == Spec /\ WF_vars(Next)

(***************************************************************************)
(* ArxivClient._rate_limit and fetch_papers: calls on one client, which    *)
(* may overlap; time is counted in seconds                                 *)
(***************************************************************************)
\* the settings and the rest of the client, at rest
IdleCore ==
    /\ max_retries = 1
    /\ max_concurrent_downloads = 1
    /\ max_concurrent_parsing = 1
    /\ cache = [p \in Paths |-> "absent"]
    /\ IdleFrames
    /\ ncalls = 0
    /\ prev = NoCall
    /\ fpc = "idle"
    /\ IdleBatch

\* "if self._last_request_time is not None: elapsed = ...: if elapsed < delay"
MustSleep ==
    /\ last_request_time # NoTime
    /\ now - last_request_time < rate_limit_delay

\* self._last_request_time = time.time(); _rate_limit returns and the GET is sent
IssueRequest(k) ==
    /\ last_request_time' = now
    /\ issued' = [issued EXCEPT ![k] = now]
    /\ rlpc' = [rlpc EXCEPT ![k] = "request"]

\* fetch_papers is called and runs into _rate_limit: it sleeps for what is
\* left of the delay, or goes on to the request
FetchCall(k) ==
    /\ rlpc[k] = "idle"
    /\ \A j \in 1..(k - 1) : rlpc[j] # "idle"
    /\ IF MustSleep
         THEN /\ rlpc' = [rlpc EXCEPT ![k] = "sleeping"]
              /\ wake' = [wake EXCEPT ![k] = now + (rate_limit_delay - (now - last_request_time))]
              /\ UNCHANGED <<last_request_time, issued>>
         ELSE /\ IssueRequest(k)
              /\ UNCHANGED wake
    /\ UNCHANGED <<now, coreVars, valVars, respVars, cfgVars, limVars, dbVars>>

\* await asyncio.sleep(...) is over
SleepEnds(k) ==
    /\ rlpc[k] = "sleeping"
    /\ now >= wake[k]
    /\ IssueRequest(k)
    /\ UNCHANGED <<now, wake, coreVars, valVars, respVars, cfgVars, limVars, dbVars>>

\* the GET returns or raises and fetch_papers returns or raises
FetchEnds(k) ==
    /\ rlpc[k] = "request"
    /\ rlpc' = [rlpc EXCEPT ![k] = "done"]
    /\ UNCHANGED <<now, last_request_time, wake, issued, coreVars, valVars, respVars, cfgVars, limVars, dbVars>>

\* a second passes; a sleep that is over ends before the clock moves on
Tick ==
    /\ now < MaxTime
    /\ \A k \in Calls : rlpc[k] = "sleeping" => wake[k] > now
    /\ now' = now + 1
    /\ UNCHANGED <<last_request_time, rlpc, wake, issued, coreVars, valVars, respVars, cfgVars, limVars, dbVars>>

InitRL ==
    /\ IdleCore /\ IdleLimiter /\ IdleValidator /\ IdleFetch /\ IdleConfig
    /\ IdleArgument /\ IdleDatabase

NextRL ==
    \/ \E k \in Calls : FetchCall(k)
    \/ \E k \in Calls : SleepEnds(k)
    \/ \E k \in Calls : FetchEnds(k)
    \/ Tick

SpecRL == InitRL /\ [][NextRL]_vars

(***************************************************************************)
(* One batch on the clock: call 1 is the metadata fetch, the calls after   *)
(* it are the download_pdf calls of the item pipelines, started when the   *)
(* fetch has returned and a download slot is free                          *)
(***************************************************************************)
Downloads == Calls \ {1}
DownloadsInFlight == { k \in Downloads : rlpc[k] \in {"sleeping", "request"} }

\* _download_with_retry: "await asyncio.sleep(self.rate_limit_delay)", a
\* sleep of the full delay that neither reads nor writes _last_request_time
DownloadSleeps(k) ==
    /\ k \in Downloads
    /\ rlpc[1] = "done"
    /\ rlpc[k] = "idle"
    /\ \A j \in 2..(k - 1) : rlpc[j] # "idle"
    /\ Cardinality(DownloadsInFlight) < max_concurrent_downloads
    /\ rlpc' = [rlpc EXCEPT ![k] = "sleeping"]
    /\ wake' = [wake EXCEPT ![k] = now + rate_limit_delay]
    /\ UNCHANGED <<now, last_request_time, issued, coreVars, valVars, respVars, cfgVars,
                   limVars, dbVars>>

\* the sleep is over: the first GET of the download is sent
DownloadRequest(k) ==
    /\ k \in Downloads
    /\ rlpc[k] = "sleeping"
    /\ now >= wake[k]
    /\ issued' = [issued EXCEPT ![k] = now]
    /\ rlpc' = [rlpc EXCEPT ![k] = "request"]
    /\ UNCHANGED <<now, last_request_time, wake, coreVars, valVars, respVars, cfgVars,
                   limVars, dbVars>>

\* download_pdf returns or raises and the pipeline leaves its download slot
DownloadEnds(k) ==
    /\ k \in Downloads
    /\ rlpc[k] = "request"
    /\ rlpc' = [rlpc EXCEPT ![k] = "done"]
    /\ UNCHANGED <<now, last_request_time, wake, issued, coreVars, valVars, respVars,
                   cfgVars, limVars, dbVars>>

InitBT ==
    /\ max_retries = 1
    /\ max_concurrent_downloads \in 1..MaxDownloadSlots
    /\ max_concurrent_parsing = 1
    /\ cache = [p \in Paths |-> "absent"]
    /\ IdleFrames
    /\ ncalls = 0
    /\ prev = NoCall
    /\ fpc = "idle"
    /\ IdleBatch
    \* the client is new, or an earlier fetch sent its request at time 0
    /\ now = 0
    /\ last_request_time \in {NoTime, 0}
    /\ rlpc = [k \in Calls |-> "idle"]
    /\ wake = [k \in Calls |-> NoTime]
    /\ issued = [k \in Calls |-> NoTime]
    /\ IdleValidator /\ IdleFetch /\ IdleConfig
    /\ IdleArgument /\ IdleDatabase

NextBT ==
    \/ FetchCall(1)
    \/ SleepEnds(1)
    \/ FetchEnds(1)
    \/ \E k \in Downloads : DownloadSleeps(k)
    \/ \E k \in Downloads : DownloadRequest(k)
    \/ \E k \in Downloads : DownloadEnds(k)
    \/ Tick

SpecBT == InitBT /\ [][NextBT]_vars

(***************************************************************************)
(* DoclingParser._validate_pdf                                             *)
(***************************************************************************)
\* the files a path can lead to: none, an empty file, or a file with a size,
\* a first line that is "%PDF-" or not, and a document pdfium can open or not
FileSizes == {1} \cup { mb * BytesPerMb + d : mb \in 1..MaxSizeMb, d \in {0, 1} }
Files ==
    {NoFile}
    \cup {[exists |-> TRUE, size |-> 0, header_ok |-> FALSE, opens |-> FALSE, pages |-> 0]}
    \cup { f \in [exists : {TRUE}, size : FileSizes, header_ok : BOOLEAN,
                  opens : BOOLEAN, pages : 0..(MaxPageLimit + 1)] :
             ~f.opens => f.pages = 0 }

\* the names bound in the module parser.py: its imports, logger and its class
ParserModuleNames ==
    {"logging", "Path", "pdfium", "InputFormat", "PdfPipelineOptions",
     "DocumentConverter", "PdfFormatOption", "logger", "DoclingParser"}

\* evaluating a global name of parser.py
NameOf(name) == IF name \in ParserModuleNames THEN name ELSE "NameError"

\* the check named c raises e; ran lists the checks made, c the last of them
Raised(c, e, ran) == [result |-> "raise", check |-> c, exc |-> e, ran |-> ran]

\* the body of the try statement: what it returns or raises, the check that
\* raised, and the checks made
TryBodyPagesBeforeHeader(f) ==
    IF ~f.exists
      THEN Raised("missing", "FileNotFoundError", <<"missing">>)
    ELSE IF f.size = 0
      THEN Raised("empty", NameOf("PDFValidationError"), <<"missing", "empty">>)
    ELSE IF f.size > max_file_size_bytes
      THEN Raised("size", NameOf("PDFValidationError"), <<"missing", "empty", "size">>)
    ELSE IF ~f.opens
      THEN Raised("pages", "PdfiumError", <<"missing", "empty", "size", "pages">>)
    ELSE IF f.pages > max_pages
      THEN Raised("pages", NameOf("PDFValidationError"),
                  <<"missing", "empty", "size", "pages">>)
    ELSE IF ~f.header_ok
      THEN Raised("header", NameOf("PDFValidationError"),
                  <<"missing", "empty", "size", "pages", "header">>)
    ELSE [result |-> "True", check |-> "none", exc |-> "",
          ran |-> <<"missing", "empty", "size", "pages", "header">>]
TryBody(f) ==
    IF ~f.exists
      THEN Raised("missing", "FileNotFoundError", <<"missing">>)
    ELSE IF f.size = 0
      THEN Raised("empty", NameOf("PDFValidationError"), <<"missing", "empty">>)
    ELSE IF f.size > max_file_size_bytes
      THEN Raised("size", NameOf("PDFValidationError"), <<"missing", "empty", "size">>)
    ELSE IF ~f.header_ok
      THEN Raised("header", NameOf("PDFValidationError"),
                  <<"missing", "empty", "size", "header">>)
    ELSE IF ~f.opens
      THEN Raised("pages", "PdfiumError", <<"missing", "empty", "size", "header", "pages">>)
    ELSE IF f.pages > max_pages
      THEN Raised("pages", NameOf("PDFValidationError"),
                  <<"missing", "empty", "size", "header", "pages">>)
    ELSE [result |-> "True", check |-> "none", exc |-> "",
          ran |-> <<"missing", "empty", "size", "header", "pages">>]

\* "except PDFValidationError: raise" and "except Exception as e: raise
\* PDFValidationError(...)": matching the first clause evaluates the name
Handlers(o) ==
    IF o.result = "True" THEN o
    ELSE IF NameOf("PDFValidationError") = "NameError"
      THEN [o EXCEPT !.exc = "NameError"]
    ELSE [o EXCEPT !.exc = "PDFValidationError"]

ValidatePdf(f) == Handlers(TryBody(f))

\* one call of _validate_pdf(pdf_path)
ValidateCall ==
    /\ val_pc = "idle"
    /\ validated' = ValidatePdf(pdf_file)
    /\ val_pc' = "done"
    /\ UNCHANGED <<max_pages, max_file_size_bytes, pdf_file, coreVars, rlVars, respVars, cfgVars, limVars, dbVars>>

InitVal ==
    /\ IdleCore
    /\ IdleLimiter
    /\ IdleFetch
    /\ IdleArgument
    /\ IdleDatabase
    /\ IdleConfig
    /\ max_pages \in 1..MaxPageLimit
    /\ max_file_size_bytes \in { mb * BytesPerMb : mb \in 1..MaxSizeMb }
    /\ pdf_file \in Files
    /\ val_pc = "idle"
    /\ validated = NoValidation

NextVal == ValidateCall

SpecVal == InitVal /\ [][NextVal]_vars

(***************************************************************************)
(* ArxivClient.fetch_papers from its GET on: the exceptions of the request *)
(* and _parse_response / _parse_single_entry on the body                   *)
(***************************************************************************)
\* text.split('/')[-1]: what follows the last "/" of the text
RECURSIVE LastSegment(_)
LastSegment(text) ==
    IF text = <<>> THEN <<>>
    ELSE IF text[Len(text)] = "/" THEN <<>>
    ELSE LastSegment(SubSeq(text, 1, Len(text) - 1)) \o <<text[Len(text)]>>

\* the href of the entry's application/pdf link, "" for an entry without one
Hrefs == {"", "http://arxiv.org/pdf/x"}

\* the https form of an http://arxiv.org/ link
GetPdfUrl(href) ==
    IF href = "http://arxiv.org/pdf/x" THEN "https://arxiv.org/pdf/x" ELSE href

\* an <entry>: whether it has an <id> with text, that text, whether building
\* the record raises, and its PDF link
Entries ==
    [has_id : {TRUE}, id_text : {<<"x", "/", "c">>, <<"d">>}, raises : BOOLEAN,
     href : Hrefs]
    \cup [has_id : {FALSE}, id_text : {<<>>}, raises : BOOLEAN, href : Hrefs]

EntryLists == UNION { [1..n -> Entries] : n \in 0..MaxEntries }

\* what the GET can bring: a timeout, a non-2xx status, another transport
\* error, a body that is not XML, or a feed of entries
Responses ==
    { [kind |-> k, entries |-> <<>>] : k \in {"timeout", "status", "error", "malformed"} }
    \cup { [kind |-> "feed", entries |-> es] : es \in EntryLists }

\* _parse_single_entry: <<>> for None, <<paper>> for an ArxivPaper
ParseSingleEntry(entry) ==
    IF ~entry.has_id THEN <<>>
    ELSE IF entry.raises THEN <<>>
    ELSE << [arxiv_id |-> LastSegment(entry.id_text),
             pdf_url |-> GetPdfUrl(entry.href)] >>

\* the loop of _parse_response over the entries, in document order
RECURSIVE ParseEntriesMalformedClears(_)
ParseEntriesMalformedClears(es) ==
    IF es = <<>> THEN <<>>
    ELSE LET paper == ParseSingleEntry(es[Len(es)])
         IN  IF paper # <<>>
             THEN ParseEntriesMalformedClears(SubSeq(es, 1, Len(es) - 1)) \o paper
             ELSE <<>>
RECURSIVE ParseEntries(_)
ParseEntries(es) ==
    IF es = <<>> THEN <<>>
    ELSE LET parsed == ParseEntries(SubSeq(es, 1, Len(es) - 1))
             paper == ParseSingleEntry(es[Len(es)])
         IN  IF paper # <<>> THEN parsed \o paper ELSE parsed

\* how a try body ends
Returned(list) == [kind |-> "list", papers |-> list]
Threw(e) == [kind |-> "threw", exc |-> e]

\* _parse_response: ET.fromstring raises ParseError on a body that is not XML
ParseResponse(r) ==
    IF r.kind = "malformed"
    THEN Threw("ArxivParseError")
    ELSE Returned(ParseEntries(r.entries))

\* the try body of fetch_papers
GetAndParse(r) ==
    CASE r.kind = "timeout" -> Threw("TimeoutException")
      [] r.kind = "status"  -> Threw("HTTPStatusError")
      [] r.kind = "error"   -> Threw("ConnectError")
      [] OTHER              -> ParseResponse(r)

\* the except clauses of fetch_papers, in their order; the last one is
\* "except Exception" and takes every exception the first two let through
FetchHandlers(t) ==
    IF t.kind = "list" THEN t
    ELSE IF t.exc = "TimeoutException"
    THEN RaiseFrom("ArxivAPITimeoutError", "arXiv API request timed out", t.exc)
    ELSE IF t.exc = "HTTPStatusError"
    THEN RaiseFrom("ArxivAPIException", "arXiv API returned error", t.exc)
    ELSE RaiseFrom("ArxivAPIException",
                   "Unexpected error fetching papers from arXiv", t.exc)

FetchPapers(r) == FetchHandlers(GetAndParse(r))

\* fetch_papers is called and sends its GET
FetchPapersGet ==
    /\ fetch_pc \in {"idle", "done"}
    /\ fetch_pc' = "get"
    /\ response' = NoResponse
    /\ fetched' = NoFetch
    /\ UNCHANGED <<coreVars, rlVars, valVars, cfgVars, limVars, dbVars>>

\* the GET ends and fetch_papers returns or raises
FetchPapersEnds ==
    /\ fetch_pc = "get"
    /\ \E r \in Responses :
          /\ response' = r
          /\ fetched' = FetchPapers(r)
    /\ fetch_pc' = "done"
    /\ UNCHANGED <<coreVars, rlVars, valVars, cfgVars, limVars, dbVars>>

InitResp ==
    /\ IdleCore /\ IdleLimiter /\ IdleValidator /\ IdleFetch /\ IdleConfig
    /\ IdleArgument /\ IdleDatabase

NextResp == FetchPapersGet \/ FetchPapersEnds

SpecResp == InitResp /\ [][NextResp]_vars

(***************************************************************************)
(* Settings(): the fields of src/src/config.py, read from the environment  *)
(* where a variable is set and from the defaults where none is             *)
(***************************************************************************)
\* the values tried for each environment variable
EnvValues ==
    [n \in EnvNames |->
        CASE n = "APP_VERSION" -> {Unset, "0.2.0"}
          [] n = "DEBUG" -> {Unset, "false"}
          [] n = "ENVIRONMENT" -> {Unset, "production", "qa"}
          [] n = "SERVICE_NAME" -> {Unset, "other-api"}
          [] n = "ARXIV__BASE_URL" -> {Unset, "http://localhost/api/query"}
          [] n = "ARXIV__MAX_RESULTS" -> {Unset, "50"}
          [] n = "PDF_PARSER__MAX_FILE_SIZE_MB" -> {Unset, "5"}]

Environs == { e \in [EnvNames -> UNION { EnvValues[n] : n \in EnvNames }] :
                \A n \in EnvNames : e[n] \in EnvValues[n] }

\* pydantic reads a bool and an int from the variable's text
BoolOf(text) == text \in {"true", "1", "yes", "on"}
IntOf(text) == CASE text = "5" -> 5 [] text = "50" -> 50

\* Literal["development", "staging", "production"]
Environments == {"development", "staging", "production"}

\* a field: the variable's value if it is set, the default otherwise
StrField(env, name, default) == IF env[name] = Unset THEN default ELSE env[name]
BoolField(env, name, default) == IF env[name] = Unset THEN default ELSE BoolOf(env[name])
IntField(env, name, default) == IF env[name] = Unset THEN default ELSE IntOf(env[name])

ArxivSettings(env) ==
    [base_url |-> StrField(env, "ARXIV__BASE_URL", "https://export.arxiv.org/api/query"),
     max_results |-> IntField(env, "ARXIV__MAX_RESULTS", 15)]

PDFParserSettings(env) ==
    [max_file_size_mb |-> IntField(env, "PDF_PARSER__MAX_FILE_SIZE_MB", 20)]

\* Settings(): extra="ignore" drops a variable that names no field
Settings(env) ==
    IF StrField(env, "ENVIRONMENT", "development") \notin Environments
    THEN [kind |-> "raise", exc |-> "ValidationError"]
    ELSE [kind |-> "Settings",
          app_version |-> StrField(env, "APP_VERSION", "0.1.0"),
          debug |-> BoolField(env, "DEBUG", TRUE),
          environment |-> StrField(env, "ENVIRONMENT", "development"),
          arxiv |-> ArxivSettings(env),
          pdf_parser |-> PDFParserSettings(env)]

\* get_settings()
GetSettings ==
    /\ settings' = Settings(environ)
    /\ UNCHANGED <<environ, coreVars, rlVars, valVars, respVars, limVars, dbVars>>

InitCfg ==
    /\ IdleCore
    /\ IdleLimiter
    /\ IdleValidator
    /\ IdleFetch
    /\ IdleArgument
    /\ IdleDatabase
    /\ environ \in Environs
    /\ settings = NoSettings

NextCfg == GetSettings

SpecCfg == InitCfg /\ [][NextCfg]_vars

(***************************************************************************)
(* The way of max_results: from the argument of fetch_and_process_papers   *)
(* through fetch_papers into the query, and the size of the answer         *)
(***************************************************************************)
\* "if max_results is None: max_results = self.max_results" of fetch_papers
FetchLimit(max_results) ==
    IF max_results = NoArg THEN cfg_max_results ELSE max_results

\* params["max_results"]
QueryLimit(max_results) ==
    IF FetchLimit(max_results) < ArxivLimit THEN FetchLimit(max_results) ELSE ArxivLimit

\* what fetch_and_process_papers(max_results=m) hands to fetch_papers
PassedOn(m) == PassedMaxResults

\* fetch_and_process_papers(max_results=m) is called and fetch_papers sends
\* its query
FetchAndProcessCall ==
    /\ lim_pc \in {"idle", "returned"}
    /\ \E m \in {NoArg} \cup 0..MaxResultsArg :
          /\ call_arg' = m
          /\ query_limit' = QueryLimit(PassedOn(m))
    /\ lim_pc' = "fetching"
    /\ papers_fetched' = 0
    /\ UNCHANGED <<cfg_max_results, coreVars, rlVars, valVars, respVars, cfgVars, dbVars>>

\* the API answers with no more entries than the query asked for, and
\* results["papers_fetched"] = len(papers)
FetchAnswered ==
    /\ lim_pc = "fetching"
    /\ \E n \in 0..query_limit : papers_fetched' = n
    /\ lim_pc' = "returned"
    /\ UNCHANGED <<cfg_max_results, call_arg, query_limit, coreVars, rlVars, valVars,
                   respVars, cfgVars, dbVars>>

InitLim ==
    /\ IdleCore /\ IdleLimiter /\ IdleValidator /\ IdleFetch /\ IdleConfig
    /\ IdleDatabase
    /\ cfg_max_results \in 1..MaxResultsArg
    /\ call_arg = NoArg
    /\ query_limit = NoArg
    /\ lim_pc = "idle"
    /\ papers_fetched = 0

NextLim == FetchAndProcessCall \/ FetchAnswered

SpecLim == InitLim /\ [][NextLim]_vars

(***************************************************************************)
(* PostgreSQLDatabase: startup and the get_session context manager         *)
(* (src/src/db/interfaces/postgresql.py); the uses may overlap             *)
(***************************************************************************)
\* Session.commit(): the transaction is committed, or the commit raises and
\* leaves a failed transaction
Commit(s, c) ==
    [s EXCEPT !.calls = Append(@, "commit"),
              !.tx = IF c = "ok" THEN "committed" ELSE "failed"]

\* Session.rollback()
Rollback(s) ==
    [s EXCEPT !.calls = Append(@, "rollback"), !.tx = "rolled_back"]

\* Session.close(): a transaction still in progress is rolled back
Close(s) ==
    [s EXCEPT !.calls = Append(@, "close"),
              !.tx = IF @ \in {"open", "failed"} THEN "rolled_back" ELSE @]

\* get_session from the yield on: the block ended as b ("ok", an Exception or
\* a BaseException that is no Exception), the commit goes as c
AfterBlockCloseOnSuccessOnly(s, b, c) ==
    IF b = "ok"
    THEN IF c = "ok" THEN Close(Commit(s, c)) ELSE Rollback(Commit(s, c))
    ELSE IF b = "Exception" THEN Rollback(s)
    ELSE s
AfterBlock(s, b, c) ==
    IF b = "ok"
    THEN IF c = "ok" THEN Close(Commit(s, c)) ELSE Close(Rollback(Commit(s, c)))
    ELSE IF b = "Exception" THEN Close(Rollback(s))
    ELSE Close(s)

\* what the "with" statement lets out
LetOut(b, c) ==
    IF b = "ok" THEN (IF c = "ok" THEN "none" ELSE "CommitError") ELSE b

\* startup(): create_engine raises, or the factory is made and the
\* connection test raises, or all goes well
Startup ==
    /\ started # "ok"
    /\ \E r \in {"engine_error", "connect_error", "ok"} :
          /\ started' = r
          /\ session_factory' = (session_factory \/ r # "engine_error")
    /\ UNCHANGED <<db_pc, session, db_raised, sessions_made, coreVars, rlVars, valVars,
                   respVars, cfgVars, limVars>>

\* "with db.get_session() as session:" is entered
GetSession(u) ==
    /\ db_pc[u] = "idle"
    /\ \A v \in 1..(u - 1) : db_pc[v] # "idle"
    /\ IF ~session_factory
         THEN /\ db_raised' = [db_raised EXCEPT ![u] = "RuntimeError"]
              /\ db_pc' = [db_pc EXCEPT ![u] = "exited"]
              /\ UNCHANGED <<session, sessions_made>>
         ELSE /\ session' = [session EXCEPT ![u] = [tx |-> "open", calls |-> <<>>,
                                                    block |-> "none"]]
              /\ sessions_made' = sessions_made + 1
              /\ db_pc' = [db_pc EXCEPT ![u] = "in_block"]
              /\ UNCHANGED db_raised
    /\ UNCHANGED <<started, session_factory, coreVars, rlVars, valVars, respVars, cfgVars,
                   limVars>>

\* the caller's block ends and the generator runs to its end
BlockEnds(u) ==
    /\ db_pc[u] = "in_block"
    /\ \E b \in {"ok", "Exception", "BaseException"}, c \in {"ok", "raises"} :
          /\ session' = [session EXCEPT ![u] = AfterBlock([@ EXCEPT !.block = b], b, c)]
          /\ db_raised' = [db_raised EXCEPT ![u] = LetOut(b, c)]
    /\ db_pc' = [db_pc EXCEPT ![u] = "exited"]
    /\ UNCHANGED <<started, session_factory, sessions_made, coreVars, rlVars, valVars,
                   respVars, cfgVars, limVars>>

InitDB ==
    /\ IdleCore /\ IdleLimiter /\ IdleValidator /\ IdleFetch /\ IdleConfig
    /\ IdleArgument /\ IdleDatabase

NextDB ==
    \/ Startup
    \/ \E u \in Uses : GetSession(u)
    \/ \E u \in Uses : BlockEnds(u)

SpecDB == InitDB /\ [][NextDB]_vars

(***************************************************************************)
(* Properties of a batch run, checked under Spec                           *)
(***************************************************************************)
N == Len(papers)
Elems(s) == { s[k] : k \in 1..Len(s) }
Count(s, x) == Cardinality({ k \in 1..Len(s) : s[k] = x })

\* fetch_and_process_papers has returned the results of a batch of N >= 1
BatchDone == fpc = "returned" /\ N > 0

ParseErrors == ParseOutcomes \ {"content", "nothing"}

\* what happened inside the pipeline of item i
DownloadedOk(i) == ret[i].kind = "path"
DownloadRaised(i) == ret[i].kind = "raise"
ParseFailed(i) == DownloadedOk(i) /\ parse_res[i] \in ParseOutcomes \ {"content"}
ParseRaised(i) == DownloadedOk(i) /\ parse_res[i] \in ParseErrors
ItemRaised(i) == DownloadRaised(i) \/ ParseRaised(i)
\* every one of the max_retries attempts of item i's download failed
RetriesExhausted(i) ==
    /\ DownloadRaised(i)
    /\ ret[i].msg = "exhausted"
    /\ max_retries > 0
    /\ fails[i] = max_retries
\* the exception item i's pipeline caught, as the pipeline formats it
CaughtBy(i) ==
    IF DownloadRaised(i) THEN <<ret[i].exc, ret[i].msg>> ELSE <<parse_res[i], "parse">>

\* C1 (as claimed): the report of a batch of N records has
\* downloaded + len(download_failures) = N.
ClaimC1 ==
    BatchDone => report.downloaded + Len(report.download_failures) = N

\* C2 (as claimed): an item whose download succeeded and whose parse failed
\* (the parser raised, or returned nothing) is counted in downloaded, listed in
\* parse_failures, not listed in download_failures and not counted in parsed.
ClaimC2 ==
    BatchDone =>
        \A i \in 1..N :
            ParseFailed(i) =>
                /\ report.downloaded = Cardinality({ j \in 1..N : DownloadedOk(j) })
                /\ papers[i].arxiv_id \in Elems(report.parse_failures)
                /\ papers[i].arxiv_id \notin Elems(report.download_failures)
                /\ report.parsed = Cardinality({ j \in 1..N : parse_res[j] = "content" })

\* C3 (as claimed): when exactly one record's download fails with its retries
\* exhausted and every other record downloads and parses, the report has
\* downloaded = parsed = N-1, download_failures = [that id] and exactly one
\* "Download failed" entry in errors, naming that id.
ClaimC3 ==
    BatchDone =>
        \A i \in 1..N :
            ( /\ RetriesExhausted(i)
              /\ \A j \in (1..N) \ {i} : outcome[j] = Tuple(TRUE, TRUE) )
            => /\ report.downloaded = N - 1
               /\ report.parsed = N - 1
               /\ report.download_failures = <<papers[i].arxiv_id>>
               /\ Cardinality({ k \in 1..Len(report.errors) :
                                  report.errors[k][1] = "Download failed: " }) = 1
               /\ Count(report.errors, <<"Download failed: ", papers[i].arxiv_id>>) = 1

Parsing == { i \in Tasks : pc[i] = "parsing" }

\* C4: at no time are more than max_concurrent_parsing pipelines inside the
\* parse call, whatever max_concurrent_downloads and the batch size are; with
\* max_concurrent_parsing = 1 no two parses are in progress together.
TheoremC4 ==
    /\ Cardinality(Parsing) <= max_concurrent_parsing
    /\ max_concurrent_parsing = 1 => \A i, j \in Parsing : i = j

WitnessC4 ==
    /\ max_concurrent_parsing = 1
    /\ max_concurrent_downloads = 2
    /\ \E i, j \in Tasks : pc[i] = "parsing" /\ pc[j] = "wait_parse"

\* C5: once the metadata fetch has succeeded the call never raises; an
\* exception raised inside an item's pipeline ends up, as a string, in the
\* errors of the report and of the results the call returns.
TheoremC5 ==
    /\ ~fetch_failed => fpc # "raised"
    /\ BatchDone =>
         \A i \in 1..N :
             ItemRaised(i) =>
                 LET text == PipelineErrorMsg(papers[i].arxiv_id,
                                 PipelineErrorMsg(papers[i].arxiv_id, CaughtBy(i)))
                 IN  /\ text \in Elems(report.errors)
                     /\ text \in Elems(results.errors)

\* every item of a full batch failed, each in its own way, and the call returned
WitnessC5 ==
    /\ BatchDone
    /\ N = MaxPapers
    /\ DownloadRaised(1)
    /\ \A i \in 2..N : parse_res[i] = "PDFValidationError"
    /\ Len(results.errors) = N

\* the entry of pipeline_results that item i's own download and parse lead to
OwnOutcome(i) ==
    IF DownloadRaised(i) \/ ParseRaised(i)
      THEN PipelineRaises(papers[i].arxiv_id, CaughtBy(i))
    ELSE IF ret[i].kind = "None" THEN Tuple(FALSE, FALSE)
    ELSE Tuple(TRUE, parse_res[i] = "content")

\* C6: when the batch call has returned, every pipeline it launched has ended,
\* each with the outcome of its own download and parse, whatever its siblings did.
TheoremC6 ==
    BatchDone =>
        \A i \in 1..N :
            /\ pc[i] = "done"
            /\ ret[i].kind \in {"path", "None", "raise"}
            /\ DownloadedOk(i) => parse_res[i] # "none"
            /\ outcome[i] = OwnOutcome(i)

\* a sibling failed in its download, and the others still ran to their own ends
WitnessC6 ==
    /\ BatchDone
    /\ N = MaxPapers
    /\ DownloadRaised(1)
    /\ \A i \in 2..N : outcome[i] = Tuple(TRUE, TRUE)

\* C7: when the metadata fetch raises, the call fails (PipelineException) and
\* nothing of the batch is started: no task, no semaphore, no download, no parse.
TheoremC7 ==
    /\ fpc = "raised" => fetch_failed
    /\ fetch_failed =>
         /\ fpc = "raised"
         /\ papers = <<>>
         /\ download_semaphore = -1 /\ parse_semaphore = -1
         /\ \A t \in Tasks :
              /\ pc[t] = "none"
              /\ dpc[t] = "idle" /\ net[t] = 0
              /\ parse_res[t] = "none"

WitnessC7 ==
    /\ fetch_failed
    /\ fpc = "raised"
    /\ Len(results.errors) = 1

\* C12: in the report of a batch, no identifier of parsed_papers is also in
\* download_failures.
TheoremC12 ==
    BatchDone => report.parsed_papers \cap Elems(report.download_failures) = {}

WitnessC12 ==
    /\ BatchDone
    /\ \E i, j \in 1..N :
         /\ outcome[i].download_success /\ outcome[i].parsed
         /\ papers[i].arxiv_id \in report.parsed_papers
         /\ outcome[j].kind = "tuple" /\ ~outcome[j].download_success
         /\ papers[j].arxiv_id \in Elems(report.download_failures)

\* C13: a value returned by an item pipeline is (False, None), (True, None) or
\* (True, parsed): a parsed paper never comes with download_success False.
TheoremC13 ==
    \A i \in Tasks :
        outcome[i].kind = "tuple" => (outcome[i].parsed => outcome[i].download_success)

\* (False, None) and (True, None) side by side; (True, parsed) is in WitnessC12
WitnessC13 ==
    \E i, j \in 1..N :
        /\ outcome[i].kind = "tuple" /\ outcome[j].kind = "tuple"
        /\ ~outcome[i].download_success /\ ~outcome[i].parsed
        /\ outcome[j].download_success /\ ~outcome[j].parsed

\* task i is inside download_pdf, between its slot and the call's return
Downloading(i) == pc[i] = "downloading"

\* C14: the stages overlap: a task that waits for its parse stage waits for a
\* parse slot and for nothing else, whatever the downloads of the other tasks
\* are doing, so one item is parsed while another is still being downloaded.
TheoremC14 ==
    \A i \in Tasks :
        (pc[i] = "wait_parse" /\ parse_semaphore > 0) => ENABLED AcquireParse(i)

WitnessC14 ==
    \E i, j \in 1..N :
        /\ pc[i] = "parsing"
        /\ Downloading(j) /\ dpc[j] \in {"request", "stream"}

\* the identifiers of the papers whose pipeline returned (ds, pp), in the
\* order of the input batch
InInputOrder(ds, pp) ==
    LET idx == SelectSeq([k \in 1..N |-> k],
                         LAMBDA k : /\ outcome[k].kind = "tuple"
                                    /\ outcome[k].download_success = ds
                                    /\ outcome[k].parsed = pp)
    IN  [j \in 1..Len(idx) |-> papers[idx[j]].arxiv_id]

\* the step in which task i ends while every other task of the batch has ended
FinishesLast(i) ==
    /\ pc[i] # "done" /\ pc'[i] = "done"
    /\ \A j \in (1..N) \ {i} : pc[j] = "done"

\* C15 as claimed: the failure lists are in the order in which the pipelines
\* completed, so the pipeline that completes last is the last of its list.
ClaimC15 ==
    [][\A i \in 1..N :
         FinishesLast(i) =>
           LET r == Aggregate(papers, [k \in 1..N |-> outcome'[k]])
               last(q) == q[Len(q)]
           IN  /\ (outcome'[i].kind = "tuple" /\ ~outcome'[i].download_success)
                    => last(r.download_failures) = papers[i].arxiv_id
               /\ (outcome'[i].kind = "tuple" /\ outcome'[i].download_success
                     /\ ~outcome'[i].parsed)
                    => last(r.parse_failures) = papers[i].arxiv_id]_vars

\* C15, amended: download_failures and parse_failures hold the identifiers in
\* the order of the input batch, whatever the order of completion.
TheoremC15 ==
    BatchDone =>
        /\ report.download_failures = InInputOrder(FALSE, FALSE)
        /\ report.parse_failures = InInputOrder(TRUE, FALSE)

WitnessC15 ==
    /\ BatchDone /\ N = 2
    /\ papers[1].arxiv_id # papers[2].arxiv_id
    /\ report.parse_failures = <<papers[1].arxiv_id, papers[2].arxiv_id>>

\* C16: within one item the parser runs only after that item's download has
\* returned a path; after a download that returned no path or raised, the
\* item gets no parse slot and its parser is never called.
TheoremC16 ==
    \A i \in Tasks :
        /\ (pc[i] \in {"wait_parse", "parsing"} \/ parse_res[i] # "none")
             => (dpc[i] = "returned" /\ ret[i].kind = "path")
        /\ (dpc[i] = "returned" /\ ret[i].kind \in {"None", "raise"})
             => (pc[i] = "done" /\ parse_res[i] = "none")

WitnessC16 ==
    \E i, j \in 1..N :
        /\ ret[i].kind = "path" /\ parse_res[i] = "content"
        /\ ret[j].kind = "None" /\ pc[j] = "done" /\ parse_res[j] = "none"

\* C17: when every download and parse call eventually returns or raises and
\* the tasks are scheduled fairly, every item pipeline of the batch ends and
\* the batch call returns: no task waits for ever at a semaphore.
TheoremC17 ==
    (fpc = "batch") ~> (fpc = "returned" /\ \A i \in 1..N : pc[i] = "done")

WitnessC17 ==
    /\ fpc = "returned" /\ N = MaxPapers
    /\ max_concurrent_downloads = 1 /\ max_concurrent_parsing = 1
    /\ \A i \in 1..N : pc[i] = "done" /\ net[i] > 0 /\ parse_res[i] # "none"

\* every download of the batch returned a path and every parse content
AllSucceeded ==
    \A i \in 1..N : DownloadedOk(i) /\ parse_res[i] = "content"

\* C23: for a batch of N records with pairwise distinct identifiers in which
\* every download succeeds and every parse returns content, the call returns
\* papers_fetched = pdfs_downloaded = pdfs_parsed = N and no error.
TheoremC23 ==
    (BatchDone /\ AllSucceeded
       /\ \A i, j \in 1..N : i # j => papers[i].arxiv_id # papers[j].arxiv_id)
    => /\ results.papers_fetched = N
       /\ results.pdfs_downloaded = N
       /\ results.pdfs_parsed = N
       /\ results.errors = <<>>

WitnessC23 ==
    /\ BatchDone /\ AllSucceeded /\ N = 2
    /\ papers[1].arxiv_id # papers[2].arxiv_id
    /\ results.pdfs_parsed = 2

\* C24 as claimed: when two pipelines of a batch work on the same identifier
\* and both miss the cache, the download is made twice and that is all: the
\* document a pipeline has fetched and is parsing is in a file that no other
\* pipeline is writing.
ClaimC24 ==
    \A i, j \in 1..N :
        (i # j /\ pc[i] = "parsing" /\ net[i] > 0 /\ Downloading(j) /\ dpc[j] = "stream")
            => PathOf(j) # ret[i].path

\* the tasks that hold a download slot
InDownload == { i \in Tasks : Downloading(i) }

\* C28: at no time are more than max_concurrent_downloads pipelines inside
\* the download call; a pipeline that finds no free slot stays pending.
TheoremC28 ==
    /\ Cardinality(InDownload) <= max_concurrent_downloads
    /\ \A i \in Tasks :
         (pc[i] = "pending" /\ Cardinality(InDownload) = max_concurrent_downloads)
             => ~ENABLED StartDownload(i)

WitnessC28 ==
    /\ max_concurrent_downloads = 1
    /\ max_concurrent_parsing = 2
    /\ pc[1] = "downloading" /\ pc[2] = "pending"

\* C29: no pipeline holds a download slot and a parse slot together: the
\* download slots in use are those of the pipelines inside the download call,
\* so a pipeline that waits for a parse slot, parses, or has ended (by a
\* return or by an exception) has given its download slot back.
TheoremC29 ==
    fpc = "batch" =>
        /\ download_semaphore = max_concurrent_downloads - Cardinality(InDownload)
        /\ parse_semaphore = max_concurrent_parsing - Cardinality(Parsing)
        /\ InDownload \cap Parsing = {}

WitnessC29 ==
    /\ fpc = "batch"
    /\ max_concurrent_downloads = 1
    /\ download_semaphore = 1
    /\ \E i, j \in 1..N : pc[i] = "parsing" /\ DownloadRaised(j) /\ pc[j] = "done"

\* strings of the report's errors that are pipeline-error entries for id x
PipelineErrorsFor(x) ==
    Cardinality({ k \in 1..Len(report.errors) :
                    /\ report.errors[k][1] = "Pipeline error for "
                    /\ report.errors[k][2] = x })
\* records of the batch with id x, and those of them that parsed
RecordsWith(x) == { i \in 1..N : papers[i].arxiv_id = x }
ParsedWith(x) == { i \in RecordsWith(x) : DownloadedOk(i) /\ parse_res[i] = "content" }

\* C33: in the report of a batch of N records every record that parsed adds
\* nothing to errors and every other record adds one string, so
\* len(errors) = N - parsed; and every record is counted once: as parsed, in
\* parse_failures, in download_failures, or by a pipeline-error entry.
TheoremC33 ==
    BatchDone =>
        /\ Len(report.errors) = N - report.parsed
        /\ report.parsed = Cardinality({ i \in 1..N : DownloadedOk(i) /\ parse_res[i] = "content" })
        /\ \A x \in { papers[i].arxiv_id : i \in 1..N } :
             Cardinality(RecordsWith(x)) =
                 Cardinality(ParsedWith(x)) + Count(report.parse_failures, x)
                 + Count(report.download_failures, x) + PipelineErrorsFor(x)

WitnessC33 ==
    /\ BatchDone /\ N = 2
    /\ report.parsed = 1
    /\ Len(report.parse_failures) = 1
    /\ Len(report.errors) = 1

\* C34: once the semaphores exist, the free permits of each plus the
\* pipelines inside its stage are its capacity, and when the batch run has
\* returned every permit of both is free again, also after a download that
\* returned None or raised and after a parse that raised.
TheoremC34 ==
    /\ download_semaphore # -1 =>
          /\ download_semaphore + Cardinality(InDownload) = max_concurrent_downloads
          /\ parse_semaphore + Cardinality(Parsing) = max_concurrent_parsing
    /\ BatchDone =>
          /\ download_semaphore = max_concurrent_downloads
          /\ parse_semaphore = max_concurrent_parsing

WitnessC34 ==
    /\ BatchDone /\ N = 2
    /\ \E i, j \in 1..N : (ret[i].kind = "None" \/ DownloadRaised(i)) /\ ParseRaised(j)
    /\ parse_semaphore = max_concurrent_parsing

\* C36: when the metadata fetch returns no records, fetch_and_process_papers
\* returns zero counters and no errors, makes no semaphore and starts no
\* pipeline: no download and no parse is called.
TheoremC36 ==
    (fpc = "returned" /\ papers = <<>>) =>
        /\ results = [papers_fetched |-> 0, pdfs_downloaded |-> 0, pdfs_parsed |-> 0,
                      errors |-> <<>>]
        /\ download_semaphore = -1 /\ parse_semaphore = -1
        /\ report = EmptyReport
        /\ \A t \in Tasks : pc[t] = "none" /\ dpc[t] = "idle" /\ net[t] = 0
                               /\ parse_res[t] = "none"

WitnessC36 == fpc = "returned" /\ papers = <<>> /\ ~fetch_failed

(***************************************************************************)
(* Properties of download_pdf, checked under SpecDL                        *)
(***************************************************************************)
RECURSIVE SumSeq(_)
SumSeq(s) == IF s = <<>> THEN 0 ELSE Head(s) + SumSeq(Tail(s))

\* the call of task t went to the network and came back with the file
FetchedOk(t) == dpc[t] = "returned" /\ ret[t].kind = "path" /\ net[t] > 0

\* the call of task t ended in total failure: every attempt it could make
\* failed (an exhausted-retries error, or False turned into None)
TotalFailure(t) ==
    /\ dpc[t] = "returned"
    /\ darg[t].paper.pdf_url # ""
    /\ \/ ret[t].kind = "None"
       \/ ret[t].kind = "raise" /\ ret[t].msg = "exhausted"

\* the current call is for the paper of the call before, which returned a path
SecondCall ==
    /\ dpc[1] = "returned"
    /\ prev.ret.kind = "path"
    /\ prev.paper = darg[1].paper
    /\ ~darg[1].force

\* C8: when download_pdf has returned a path for a paper, the next call for
\* the same paper with force_download false returns the same path and issues
\* no network request, so the two calls issue the requests of the first alone.
TheoremC8 ==
    SecondCall => /\ ret[1] = prev.ret
                  /\ ret[1].path = GetPdfPath(darg[1].paper.arxiv_id)
                  /\ net[1] = 0
                  /\ prev.net + net[1] = prev.net

WitnessC8 ==
    /\ SecondCall
    /\ prev.net = 1
    /\ ret[1].kind = "path"
    /\ net[1] = 0

\* C9 (as claimed): after a download that ended in total failure no file is
\* left at the target cache path.
ClaimC9 ==
    TotalFailure(1) => cache[PathOf(1)] = "absent"

AllAttemptsFailed(t) ==
    /\ dpc[t] = "returned"
    /\ max_retries > 0
    /\ fails[t] = max_retries

\* C11: a download issues at most max_retries requests; when all max_retries
\* attempts fail it raises PDFDownloadTimeoutError if the failure it reports
\* is a timeout and PDFDownloadException itself if it is another HTTP error,
\* and no backoff sleep follows the last attempt.
TheoremC11 ==
    /\ net[1] <= max_retries
    /\ AllAttemptsFailed(1) =>
         /\ ret[1].kind = "raise"
         /\ net[1] = max_retries
         /\ ret[1].cause = "timeout" =>
              /\ ret[1].exc = "PDFDownloadTimeoutError" /\ ret[1].msg = "exhausted"
              /\ Len(waits[1]) = max_retries - 1
         /\ ret[1].cause = "http" =>
              /\ ret[1].exc = "PDFDownloadException" /\ ret[1].msg = "exhausted"
              /\ Len(waits[1]) = max_retries - 1

WitnessC11 ==
    /\ max_retries = 3
    /\ AllAttemptsFailed(1)
    /\ ret[1].cause = "http" /\ ret[1].exc = "PDFDownloadException"
    /\ waits[1] = <<5, 10>>

\* the current call found a file at the cache path and returned it
ReturnedCacheHit(t) ==
    /\ dpc[t] = "returned"
    /\ ret[t].kind = "path"
    /\ net[t] = 0

\* C25 as claimed: on a cache that started empty, a file that download_pdf
\* returns as a cache hit is a document that an earlier attempt wrote to its
\* end, never what a failed attempt left.
ClaimC25 ==
    ReturnedCacheHit(1) => cache[ret[1].path] = "complete"

\* the current call is download_pdf(paper, force_download=True) for a paper
\* with a pdf_url, and it has returned
ForcedCall ==
    /\ dpc[1] = "returned"
    /\ darg[1].force
    /\ darg[1].paper.pdf_url # ""

TheoremC30 ==
    [][\A t \in Tasks :
         /\ (dpc'[t] = "rate_sleep" /\ dpc[t] # "rate_sleep")
               => (dpc[t] \in {"idle", "returned"} /\ net'[t] = 0)
         /\ (dpc[t] = "rate_sleep" /\ dpc'[t] = "request")
               => (net[t] = 0 /\ attempt[t] = 0 /\ waits[t] = <<>>)
         /\ (dpc'[t] = "request" /\ dpc[t] # "request" /\ net[t] > 0)
               => dpc[t] = "backoff"
         /\ dpc[t] \in {"request", "stream", "backoff"} => dpc'[t] # "rate_sleep"]_vars

WitnessC30 ==
    /\ dpc[1] = "returned" /\ ret[1].kind = "path"
    /\ fails[1] = 1 /\ net[1] = 2
    /\ waits[1] = <<5>>

\* C35: an attempt that fails with an error that is neither a timeout nor
\* an httpx.HTTPError ends the call: download_pdf raises PDFDownloadException
\* from it at once, with attempts left or not, after no backoff wait and no
\* further request.
TheoremC35 ==
    [][\A t \in Tasks :
         (dpc[t] \in {"request", "stream"} /\ DlAttemptFailed(t, "other")) =>
            /\ dpc'[t] = "returned"
            /\ ret'[t].kind = "raise"
            /\ ret'[t].exc = "PDFDownloadException"
            /\ waits'[t] = waits[t]
            /\ net'[t] = net[t]]_vars

WitnessC35 ==
    /\ dpc[1] = "returned" /\ ret[1].kind = "raise" /\ ret[1].cause = "other"
    /\ max_retries = 3 /\ fails[1] = 1 /\ net[1] = 1 /\ waits[1] = <<>>

(***************************************************************************)
(* Properties of the rate limiter, checked under SpecRL                    *)
(***************************************************************************)
\* C18 as claimed: of any two fetch_papers calls on one client, calls that
\* overlap included, the later request is sent no earlier than
\* rate_limit_delay after the earlier one.
ClaimC18 ==
    \A j, k \in Calls :
        (j # k /\ issued[j] # NoTime /\ issued[k] # NoTime /\ issued[j] <= issued[k])
            => issued[k] - issued[j] >= rate_limit_delay

\* C31 as claimed, checked under SpecBT: the first requests of any two
\* downloads of one batch are sent at least rate_limit_delay apart, and each
\* at least rate_limit_delay after the request of the metadata fetch.
ClaimC31 ==
    /\ \A j, k \in Downloads :
         (j # k /\ issued[j] # NoTime /\ issued[k] # NoTime /\ issued[j] <= issued[k])
            => issued[k] - issued[j] >= rate_limit_delay
    /\ \A k \in Downloads :
         issued[k] # NoTime => issued[k] - issued[1] >= rate_limit_delay

(***************************************************************************)
(* Properties of _validate_pdf, checked under SpecVal                      *)
(***************************************************************************)
\* whether the file fails the check named c
Fails(c, f) ==
    CASE c = "missing" -> ~f.exists
      [] c = "empty"   -> f.exists /\ f.size = 0
      [] c = "size"    -> f.size > max_file_size_bytes
      [] c = "header"  -> f.exists /\ f.size > 0 /\ ~f.header_ok
      [] c = "pages"   -> f.exists /\ f.size > 0 /\ (~f.opens \/ f.pages > max_pages)

\* what validation in the order of checks given must do with the file
InOrder(order, f) ==
    LET bad == { k \in 1..Len(order) : Fails(order[k], f) }
    IN  IF bad = {}
          THEN validated.result = "True" /\ validated.ran = order
          ELSE LET m == CHOOSE k \in bad : \A j \in bad : k <= j
               IN  /\ validated.result = "raise"
                   /\ validated.check = order[m]
                   /\ validated.ran = SubSeq(order, 1, m)

\* C19 as claimed: validating a zero-byte file raises PDFValidationError at
\* the emptiness check: no later check is made and the converter is not used.
ClaimC19 ==
    (val_pc = "done" /\ pdf_file.exists /\ pdf_file.size = 0) =>
        /\ validated.result = "raise"
        /\ validated.exc = "PDFValidationError"
        /\ validated.ran = <<"missing", "empty">>

\* C20 as claimed: the checks are made in the order missing, empty, size,
\* page count, header, and the first that fails ends the validation.
ClaimC20 ==
    val_pc = "done" =>
        InOrder(<<"missing", "empty", "size", "pages", "header">>, pdf_file)

\* C20, amended: the checks are made in the order missing, empty, size,
\* header, page count; the first that fails ends the validation with an
\* exception and no later check is made.
TheoremC20 ==
    val_pc = "done" =>
        InOrder(<<"missing", "empty", "size", "header", "pages">>, pdf_file)

WitnessC20 ==
    /\ val_pc = "done"
    /\ pdf_file.size > max_file_size_bytes
    /\ ~pdf_file.header_ok
    /\ pdf_file.opens /\ pdf_file.pages > max_pages
    /\ validated.check = "size"


(***************************************************************************)
(* Properties of fetch_papers, checked under SpecResp                      *)
(***************************************************************************)
\* C21 as claimed: fetch_papers raises ArxivAPITimeoutError on a timeout,
\* ArxivAPIException on a non-2xx status and ArxivParseError on a body that
\* is not XML, and returns no list in any of the three cases.
ClaimC21 ==
    fetch_pc = "done" =>
        /\ response.kind \in {"timeout", "status", "malformed"} => fetched.kind = "raise"
        /\ response.kind = "timeout" => fetched.exc = "ArxivAPITimeoutError"
        /\ response.kind = "status" => fetched.exc = "ArxivAPIException"
        /\ response.kind = "malformed" => fetched.exc = "ArxivParseError"

\* an entry with an id whose record can be built
ValidEntry(e) == e.has_id /\ ~e.raises
\* the valid entries among the first i of the list
ValidUpTo(es, i) == Cardinality({ j \in 1..i : ValidEntry(es[j]) })

\* C22: for a feed with any mix of valid and malformed entries, fetch_papers
\* returns the records of the valid entries and no others, in the order of
\* the feed; a malformed entry is skipped and the call does not fail.
TheoremC22 ==
    (fetch_pc = "done" /\ response.kind = "feed") =>
        LET es == response.entries
        IN  /\ fetched.kind = "list"
            /\ Len(fetched.papers) = ValidUpTo(es, Len(es))
            /\ \A i \in 1..Len(es) :
                 ValidEntry(es[i]) =>
                    fetched.papers[ValidUpTo(es, i)] =
                        [arxiv_id |-> LastSegment(es[i].id_text),
                         pdf_url |-> GetPdfUrl(es[i].href)]

WitnessC22 ==
    /\ fetch_pc = "done" /\ response.kind = "feed"
    /\ Len(response.entries) = 3
    /\ ValidEntry(response.entries[1])
    /\ ~response.entries[2].has_id
    /\ ValidEntry(response.entries[3])
    /\ fetched.kind = "list" /\ Len(fetched.papers) = 2
    /\ fetched.papers[1].arxiv_id = <<"c">>
    /\ fetched.papers[2].arxiv_id = <<"d">>

(***************************************************************************)
(* Properties of Settings, checked under SpecCfg                           *)
(***************************************************************************)
\* C27 as claimed: a Settings object built with nothing set in the
\* environment has app_version "0.1.0", debug true, environment
\* "development", service_name "rag-api", arxiv.base_url
\* "https://export.arxiv.org/api/query", arxiv.max_results 15 and
\* pdf_parser.max_file_size_mb 20.
ClaimC27 ==
    (settings.kind = "Settings" /\ \A n \in EnvNames : environ[n] = Unset) =>
        /\ settings.app_version = "0.1.0"
        /\ settings.debug = TRUE
        /\ settings.environment = "development"
        /\ settings.arxiv.base_url = "https://export.arxiv.org/api/query"
        /\ settings.arxiv.max_results = 15
        /\ settings.pdf_parser.max_file_size_mb = 20
        /\ "service_name" \in DOMAIN settings
        /\ settings["service_name"] = "rag-api"


(***************************************************************************)
(* Properties of the max_results argument, checked under SpecLim           *)
(***************************************************************************)
\* C32 as claimed: fetch_and_process_papers(max_results=m) fetches at most m
\* papers, for every m.
ClaimC32 ==
    (lim_pc = "returned" /\ call_arg # NoArg) => papers_fetched <= call_arg


(***************************************************************************)
(* Properties of get_session, checked under SpecDB                         *)
(***************************************************************************)
\* how often the call named c was made on the session s
Called(s, c) == Cardinality({ k \in 1..Len(s.calls) : s.calls[k] = c })

\* C37: a use of get_session before startup raises RuntimeError and creates
\* no session; after startup the session gets a commit call if and only if
\* the block ended without an exception, its transaction is rolled back when
\* the block or the commit raised, and what was raised comes out of the
\* "with" statement; in every case close is called once, as the last call,
\* after the commit and the rollback.
TheoremC37 ==
    [][\A u \in Uses :
         /\ (db_pc[u] = "idle" /\ db_pc'[u] # "idle" /\ started = "no") =>
               /\ db_pc'[u] = "exited"
               /\ db_raised'[u] = "RuntimeError"
               /\ session'[u] = NoSession
               /\ sessions_made' = sessions_made
         /\ (db_pc[u] = "idle" /\ db_pc'[u] # "idle" /\ started = "ok") =>
               /\ db_pc'[u] = "in_block"
               /\ session'[u].tx = "open" /\ session'[u].calls = <<>>
               /\ sessions_made' = sessions_made + 1
         /\ (db_pc[u] = "in_block" /\ db_pc'[u] = "exited") =>
               LET s == session'[u]
               IN  /\ Called(s, "commit") = (IF s.block = "ok" THEN 1 ELSE 0)
                   /\ s.tx = "committed" <=> (s.block = "ok" /\ db_raised'[u] = "none")
                   /\ db_raised'[u] = "none" => s.calls = <<"commit", "close">>
                   /\ db_raised'[u] # "none" =>
                         /\ s.tx = "rolled_back"
                         /\ db_raised'[u] = (IF s.block = "ok" THEN "CommitError" ELSE s.block)
                         /\ s.block = "ok" => s.calls = <<"commit", "rollback", "close">>
                         /\ s.block = "Exception" => s.calls = <<"rollback", "close">>
                         \* no except clause takes a BaseException: close ends
                         \* the transaction
                         /\ s.block = "BaseException" => s.calls = <<"close">>
                   /\ Called(s, "close") = 1
                   /\ s.calls[Len(s.calls)] = "close"
                   /\ Called(s, "rollback") <= 1]_vars

WitnessC37 ==
    /\ started = "ok"
    /\ db_pc[1] = "exited" /\ db_raised[1] = "RuntimeError" /\ session[1] = NoSession
    /\ db_pc[2] = "exited" /\ db_raised[2] = "CommitError"
    /\ session[2].calls = <<"commit", "rollback", "close">>
    /\ db_pc[3] = "exited" /\ db_raised[3] = "none" /\ session[3].tx = "committed"
    /\ sessions_made = 2

====
